---- MODULE Spec2Model ----
(***************************************************************************)
(* A model of quiz.py, the Streamlit quiz application "Quiz Master".       *)
(*                                                                         *)
(* Representation of the Python data:                                      *)
(*   - a Python str is a TLA+ string; the character-level operations of    *)
(*     the code (strip, lower) are computed with Head, Tail and \o;        *)
(*   - a value that may be None, a str, an int or a bool (a JSON scalar,   *)
(*     a widget value, a session field) is a tagged record: None, PyStr(s),  *)
(*     PyInt(n), PyBool(b);                                                    *)
(*   - a dict is a function whose DOMAIN is its set of keys, so that       *)
(*     `"k" in d` is "k" \in DOMAIN d and d.get("k", v) is Get(d, "k", v); *)
(*   - a list is a sequence.                                               *)
(* The script is re-run by Streamlit on every interaction; one action of   *)
(* the model is one such run, triggered by one widget.                     *)
(***************************************************************************)
EXTENDS Integers, Sequences, FiniteSets, TLC

VARIABLES
    subjects_data,   \* dict subject -> list of blocks        (quiz.py:61)
    version,         \* st.session_state.version              (quiz.py:69)
    quiz_questions,  \* st.session_state.quiz_questions       (quiz.py:71)
    quiz_subject,    \* st.session_state.quiz_subject         (quiz.py:73)
    quiz_config,     \* st.session_state.quiz_config          (quiz.py:75)
    chosen_topic,    \* value of the selectbox topic_<subject> (quiz.py:90)
    chosen_grade,    \* value of the selectbox grade_<subject> (quiz.py:92)
    event,           \* key or label of the widget that triggered the last run
    warning,         \* the "No questions found" warning is shown (quiz.py:103)
    user_answers,    \* answers sent with the form            (quiz.py:156)
    pass_marks,      \* pass_mark of each graded question     (quiz.py:236)
    score,           \* the final score displayed             (quiz.py:257)
    call             \* the last direct call of a helper function, with its result

session == <<version, quiz_questions, quiz_subject, quiz_config>>
widgets == <<chosen_topic, chosen_grade>>
output  == <<warning, user_answers, pass_marks, score>>
vars == <<subjects_data, version, quiz_questions, quiz_subject, quiz_config,
          chosen_topic, chosen_grade, event, warning, user_answers,
          pass_marks, score, call>>

-----------------------------------------------------------------------------
(* Bounds of the model *)

\* the session counter is followed up to this value
MaxVersion == 3
\* the largest pool has SAMPLE_MAX + PoolExtra questions
PoolExtra == 1
\* length of the question lists handed to the grading loop on its own
MaxGradeLen == 2
\* length of the block lists handed to the filter functions on their own
MaxBlocks == 2

-----------------------------------------------------------------------------
(* Python values *)

None == [py |-> "None"]
PyStr(s) == [py |-> "str", v |-> s]
PyInt(n) == [py |-> "int", v |-> n]
PyBool(b) == [py |-> "bool", v |-> b]

\* d.get(k, default)
Get(d, k, default) == IF k \in DOMAIN d THEN d[k] ELSE default

\* truth value of quiz_subject (None or a str) in `if a and b`
Truthy(x) == x # None /\ x # PyStr("")

Range(s) == {s[i] : i \in DOMAIN s}

Min(a, b) == IF a < b THEN a ELSE b

\* number of occurrences of x in the list s
Count(s, x) == Cardinality({i \in DOMAIN s : s[i] = x})

-----------------------------------------------------------------------------
(* str(), str.strip() and str.lower() *)

DIGITS == "0123456789"
UPPER == "ABCDEFGHIJKLMNOPQRSTUVWXYZ"
LOWER == "abcdefghijklmnopqrstuvwxyz"
Whitespace == {" ", "\t", "\n", "\r", "\f"}

RECURSIVE Decimal(_)
Decimal(n) ==
    IF n < 10 THEN SubSeq(DIGITS, n + 1, n + 1)
    ELSE Decimal(n \div 10) \o SubSeq(DIGITS, (n % 10) + 1, (n % 10) + 1)

\* str(ans) for a value that is not None
str(ans) ==
    CASE ans.py = "str" -> ans.v
      [] ans.py = "int" -> IF ans.v < 0 THEN "-" \o Decimal(0 - ans.v) ELSE Decimal(ans.v)
      [] ans.py = "bool" -> IF ans.v THEN "True" ELSE "False"

RECURSIVE lstrip(_)
lstrip(s) == IF s # "" /\ Head(s) \in Whitespace THEN lstrip(Tail(s)) ELSE s

RECURSIVE rstrip(_)
rstrip(s) ==
    IF s # "" /\ SubSeq(s, Len(s), Len(s)) \in Whitespace
    THEN rstrip(SubSeq(s, 1, Len(s) - 1))
    ELSE s

strip(s) == rstrip(lstrip(s))

UpperLetters == {SubSeq(UPPER, i, i) : i \in 1..Len(UPPER)}

lower_char(c) ==
    IF c \in UpperLetters
    THEN LET i == CHOOSE j \in 1..Len(UPPER) : SubSeq(UPPER, j, j) = c
         IN  SubSeq(LOWER, i, i)
    ELSE c

RECURSIVE lower(_)
lower(s) == IF s = "" THEN "" ELSE lower_char(Head(s)) \o lower(Tail(s))

\* normalize_answer without the strip()
normalize_answer_nostrip(ans) ==
    IF ans = None THEN "" ELSE lower(str(ans))

normalize_answer(ans) ==
    IF ans = None THEN "" ELSE lower(strip(str(ans)))

-----------------------------------------------------------------------------
(* The subject files on disk *)

\* multiple_choice question without choices: the radio offers the placeholder only
qPlain == [type |-> "multiple_choice", question |-> "Pick", answer |-> PyStr("a")]
qMC == [type |-> "multiple_choice", question |-> "Capital of France?",
        answer |-> PyStr("Paris"), choices |-> <<"paris ", "Rome">>]
qTF == [type |-> "true_false", question |-> "2+2=4", answer |-> PyStr("True")]
\* true_false question whose stored answer is not a truth value
qTFbad == [type |-> "true_false", question |-> "Ready?",
           answer |-> PyStr("Select an Answer")]
qTFnull == [type |-> "true_false", question |-> "Sure?", answer |-> None]
qSA == [type |-> "short_answer", question |-> "Capital of France?",
        answer |-> PyStr(" Paris")]
qFB == [type |-> "fill_blank", question |-> "2+2=_", answer |-> PyInt(4)]
qUN == [type |-> "unknown", question |-> "Anything to add?", answer |-> None]
\* a type outside the five the flattening loop names
qES == [type |-> "essay", question |-> "Discuss.", answer |-> PyStr("Yes")]
\* invalid items: a key is missing
qNoAnswer == [type |-> "short_answer", question |-> "Broken"]
qNoType == [question |-> "Broken", answer |-> PyStr("x")]

bAlg7 == [subject |-> "Math", topic |-> PyStr("Algebra"), grade |-> PyInt(7),
          questions |-> <<qTF, qNoAnswer, qSA>>]
bGeo8 == [subject |-> "Math", topic |-> PyStr("Geometry"), grade |-> PyInt(8),
          questions |-> <<qNoType, qMC>>]
\* no topic and no grade
bBare == [subject |-> "Math", questions |-> <<qFB>>]
\* a block whose topic is the literal "All", without questions key
bAll == [subject |-> "Math", topic |-> PyStr("All"), grade |-> PyStr("All")]
bGeneral == [subject |-> "Math", topic |-> PyStr("General"), questions |-> <<qSA>>]
\* no subject: filed under "Unknown"
bEssay == [topic |-> PyStr("Writing"), questions |-> <<qES>>]
bMixed == [topic |-> PyStr("Review"), questions |-> <<qUN, qES, qTFbad, qTF>>]

SAMPLE_MAX == 10

\* SAMPLE_MAX + PoolExtra questions, all but the first duplicates of each other
bBig == [subject |-> "English",
         questions |-> [i \in 1..(SAMPLE_MAX + PoolExtra) |->
                           IF i = 1 THEN qUN ELSE qPlain]]

Missing == [kind |-> "missing"]
Malformed == [kind |-> "malformed"]
NotAList == [kind |-> "other"]
File(blocks) == [kind |-> "list", data |-> blocks]

\* the possible contents of math.json, english.json, science.json
Disks == {
    <<File(<<bAlg7, bGeo8>>), Missing, Missing>>,
    <<NotAList, File(<<bBig>>), Malformed>>,
    <<File(<<bBare>>), Missing, File(<<bEssay, bMixed>>)>>,
    <<Missing, Missing, Missing>>
}

-----------------------------------------------------------------------------
(* Helper functions *)

load_subject_file(file) ==
    IF file.kind = "list" THEN file.data ELSE <<>>

RECURSIVE append_blocks(_, _)
append_blocks(subjects, blocks) ==
    IF blocks = <<>> THEN subjects
    ELSE LET block == Head(blocks)
             subj == Get(block, "subject", "Unknown")
             old == Get(subjects, subj, <<>>)
         IN  append_blocks([s \in DOMAIN subjects \cup {subj} |->
                               IF s = subj THEN Append(old, block) ELSE subjects[s]],
                           Tail(blocks))

RECURSIVE gather_subjects(_)
gather_subjects(base_files) ==
    IF base_files = <<>> THEN <<>>
    ELSE append_blocks(gather_subjects(SubSeq(base_files, 1, Len(base_files) - 1)),
                       load_subject_file(base_files[Len(base_files)]))

\* the two sorted lists are modelled by their sets of elements: the code
\* only offers them as the choices of a selectbox
get_topics_and_grades(blocks) ==
    [topics |-> {Get(b, "topic", PyStr("General")) : b \in Range(blocks)},
     grades |-> {Get(b, "grade", None) : b \in {x \in Range(blocks) : "grade" \in DOMAIN x}}]

is_valid(q) == "type" \in DOMAIN q /\ "question" \in DOMAIN q /\ "answer" \in DOMAIN q

\* the condition of line 46-47 without the literal "All"
block_selected_strict(b, selected_topic, selected_grade) ==
    /\ (selected_topic = None \/ Get(b, "topic", None) = selected_topic)
    /\ (selected_grade = None \/ Get(b, "grade", None) = selected_grade)

block_selected(b, selected_topic, selected_grade) ==
    /\ (selected_topic \in {None, PyStr("All")} \/ Get(b, "topic", None) = selected_topic)
    /\ (selected_grade \in {None, PyStr("All")} \/ Get(b, "grade", None) = selected_grade)

RECURSIVE collect_questions_from_blocks(_, _, _)
collect_questions_from_blocks(blocks, selected_topic, selected_grade) ==
    IF blocks = <<>> THEN <<>>
    ELSE LET b == blocks[Len(blocks)]
             out == collect_questions_from_blocks(SubSeq(blocks, 1, Len(blocks) - 1),
                                                  selected_topic, selected_grade)
         IN  IF block_selected(b, selected_topic, selected_grade)
             THEN out \o SelectSeq(Get(b, "questions", <<>>), is_valid)
             ELSE out

-----------------------------------------------------------------------------
(* Start Quiz: sample, group by type, shuffle, flatten *)

\* random.sample(pool, k): every list of k items drawn from distinct positions
\* of pool, in every order
Samples(pool, k) ==
    {s \in [1..k -> Range(pool)] : \A x \in Range(pool) : Count(s, x) <= Count(pool, x)}

\* random.shuffle(g): every rearrangement of g
Shuffles(g) ==
    {s \in [1..Len(g) -> Range(g)] : \A x \in Range(g) : Count(s, x) = Count(g, x)}

\* type_groups after the loop of lines 110-112
group_by_type(selected) ==
    [t \in {Get(q, "type", "unknown") : q \in Range(selected)} |->
        SelectSeq(selected, LAMBDA q : Get(q, "type", "unknown") = t)]

\* the values type_groups can have after the loop of lines 115-116
ShuffledGroups(type_groups) ==
    {g \in [DOMAIN type_groups -> UNION {Shuffles(type_groups[t]) : t \in DOMAIN type_groups}] :
        \A t \in DOMAIN type_groups : g[t] \in Shuffles(type_groups[t])}

TYPE_ORDER == <<"multiple_choice", "true_false", "short_answer", "fill_blank", "unknown">>

RECURSIVE extend_groups(_, _)
extend_groups(type_groups, order) ==
    IF order = <<>> THEN <<>>
    ELSE extend_groups(type_groups, SubSeq(order, 1, Len(order) - 1))
            \o Get(type_groups, order[Len(order)], <<>>)

\* the flattening loop run over the types in reverse order
flatten_reversed(type_groups) ==
    extend_groups(type_groups, [i \in 1..Len(TYPE_ORDER) |-> TYPE_ORDER[Len(TYPE_ORDER) + 1 - i]])

\* grouped_questions after the loop of lines 119-121
flatten(type_groups) == extend_groups(type_groups, TYPE_ORDER)

\* `x if x != "All" else None`
or_none(choice) == IF choice # PyStr("All") THEN choice ELSE None

\* all_qs of the Start Quiz handler of a tab
pool_of(subject, topic_choice, grade_choice) ==
    collect_questions_from_blocks(subjects_data[subject], or_none(topic_choice),
                                  or_none(grade_choice))

\* the empty-pool branch, clearing the session
no_questions_found_clearing ==
    /\ warning' = TRUE
    /\ quiz_questions' = <<>>
    /\ quiz_subject' = None
    /\ quiz_config' = <<>>
    /\ version' = version

\* the empty-pool branch: only a warning
no_questions_found ==
    /\ warning' = TRUE
    /\ UNCHANGED session

\* the assignments of lines 124-128 without the last one
store_session_same_version(grouped_questions, subject) ==
    /\ quiz_questions' = grouped_questions
    /\ quiz_subject' = PyStr(subject)
    /\ quiz_config' = [topic |-> chosen_topic[subject], grade |-> chosen_grade[subject]]
    /\ version' = version
    /\ warning' = FALSE

\* the assignments of lines 124-128
store_session(grouped_questions, subject) ==
    /\ quiz_questions' = grouped_questions
    /\ quiz_subject' = PyStr(subject)
    /\ quiz_config' = [topic |-> chosen_topic[subject], grade |-> chosen_grade[subject]]
    /\ version' = version + 1
    /\ warning' = FALSE

\* the Start Quiz button of the tab of `subject`
StartQuiz(subject) ==
    /\ subject \in DOMAIN subjects_data
    /\ LET all_qs == pool_of(subject, chosen_topic[subject], chosen_grade[subject])
       IN  IF all_qs = <<>>
           THEN no_questions_found
           ELSE /\ version < MaxVersion
                /\ \E selected \in Samples(all_qs, Min(SAMPLE_MAX, Len(all_qs))) :
                     \E type_groups \in ShuffledGroups(group_by_type(selected)) :
                        store_session(flatten(type_groups), subject)
    /\ event' = "start_" \o subject
    /\ user_answers' = <<>>
    /\ pass_marks' = <<>>
    /\ score' = 0
    /\ UNCHANGED <<subjects_data, widgets, call>>

-----------------------------------------------------------------------------
(* The selectboxes of a tab *)

topic_choices(subject) ==
    {PyStr("All")} \cup get_topics_and_grades(subjects_data[subject]).topics

grade_choices(subject) ==
    {PyStr("All")} \cup get_topics_and_grades(subjects_data[subject]).grades

SelectTopic(subject, choice) ==
    /\ subject \in DOMAIN subjects_data
    /\ choice \in topic_choices(subject)
    /\ choice # chosen_topic[subject]
    /\ chosen_topic' = [chosen_topic EXCEPT ![subject] = choice]
    /\ event' = "topic_" \o subject
    /\ warning' = FALSE
    /\ user_answers' = <<>>
    /\ pass_marks' = <<>>
    /\ score' = 0
    /\ UNCHANGED <<subjects_data, session, chosen_grade, call>>

SelectGrade(subject, choice) ==
    /\ subject \in DOMAIN subjects_data
    /\ choice \in grade_choices(subject)
    /\ choice # chosen_grade[subject]
    /\ chosen_grade' = [chosen_grade EXCEPT ![subject] = choice]
    /\ event' = "grade_" \o subject
    /\ warning' = FALSE
    /\ user_answers' = <<>>
    /\ pass_marks' = <<>>
    /\ score' = 0
    /\ UNCHANGED <<subjects_data, session, chosen_topic, call>>

-----------------------------------------------------------------------------
(* The quiz form and the grading loop *)

\* line 144
quiz_active == quiz_questions # <<>> /\ Truthy(quiz_subject)

\* what the user can type in a text_input
TextInputs == {"", "PARIS "}

\* the values the input widget of a question can send (lines 188-217)
widget_values(q) ==
    LET q_type == Get(q, "type", "unknown") IN
    IF q_type = "multiple_choice"
    THEN {"Select an answer"} \cup Range(Get(q, "choices", <<>>))
    ELSE IF q_type = "true_false"
    THEN {"Select an answer", "True", "False"}
    ELSE TextInputs

\* the lists user_answers the form can send for a list of questions
RECURSIVE form_answers(_)
form_answers(questions) ==
    IF questions = <<>> THEN {<<>>}
    ELSE {Append(front, PyStr(ans)) :
             front \in form_answers(SubSeq(questions, 1, Len(questions) - 1)),
             ans \in widget_values(questions[Len(questions)])}

\* pass_mark with the true_false branch comparing like the other branches
pass_mark_lenient(q, user_raw) ==
    normalize_answer(user_raw) = normalize_answer(Get(q, "answer", None))

\* pass_mark of one question after lines 230-249
pass_mark(q, user_raw) ==
    LET correct == normalize_answer(Get(q, "answer", None))
        user == normalize_answer(user_raw)
        q_type == Get(q, "type", None)
    IN  IF q_type \in {"short_answer", "fill_blank"} THEN user = correct
        ELSE IF q_type = "multiple_choice" THEN normalize_answer(user_raw) = correct
        ELSE IF q_type = "true_false" THEN user \in {"true", "false"} /\ user = correct
        ELSE user = correct

\* the grading loop of lines 226-253 over the first n questions
RECURSIVE grade(_, _, _)
grade(questions, answers, n) ==
    IF n = 0 THEN [pass_marks |-> <<>>, score |-> 0]
    ELSE LET before == grade(questions, answers, n - 1)
             mark == pass_mark(questions[n], answers[n])
         IN  [pass_marks |-> Append(before.pass_marks, mark),
              score |-> IF mark THEN before.score + 1 ELSE before.score]

\* the Submit Answers button of the form
Submit ==
    /\ quiz_active
    /\ \E answers \in form_answers(quiz_questions) :
          LET result == grade(quiz_questions, answers, Len(quiz_questions))
          IN  /\ user_answers' = answers
              /\ pass_marks' = result.pass_marks
              /\ score' = result.score
    /\ event' = "Submit Answers"
    /\ warning' = FALSE
    /\ UNCHANGED <<subjects_data, session, widgets, call>>

\* lines 265-268 without the increment
clear_session_same_version ==
    /\ quiz_questions' = <<>>
    /\ quiz_subject' = None
    /\ quiz_config' = <<>>
    /\ version' = version

\* lines 265-268
clear_session ==
    /\ quiz_questions' = <<>>
    /\ quiz_subject' = None
    /\ quiz_config' = <<>>
    /\ version' = version + 1

\* the New Set of Questions button
Reset ==
    /\ quiz_active
    /\ version < MaxVersion
    /\ clear_session
    /\ event' = "New Set of Questions"
    /\ warning' = FALSE
    /\ user_answers' = <<>>
    /\ pass_marks' = <<>>
    /\ score' = 0
    /\ UNCHANGED <<subjects_data, widgets, call>>

-----------------------------------------------------------------------------
(* The application *)

NoCall == [fn |-> "none"]

\* the script up to line 75, on its first run
Init ==
    /\ \E disk \in Disks :
          /\ subjects_data = gather_subjects(disk)
          /\ DOMAIN gather_subjects(disk) # {}
    /\ version = 0
    /\ quiz_questions = <<>>
    /\ quiz_subject = None
    /\ quiz_config = <<>>
    /\ chosen_topic = [s \in DOMAIN subjects_data |-> PyStr("All")]
    /\ chosen_grade = [s \in DOMAIN subjects_data |-> PyStr("All")]
    /\ event = ""
    /\ warning = FALSE
    /\ user_answers = <<>>
    /\ pass_marks = <<>>
    /\ score = 0
    /\ call = NoCall

\* one tab per subject (lines 78-79)
Next ==
    \/ \E subject \in DOMAIN subjects_data : \E choice \in topic_choices(subject) :
          SelectTopic(subject, choice)
    \/ \E subject \in DOMAIN subjects_data : \E choice \in grade_choices(subject) :
          SelectGrade(subject, choice)
    \/ \E subject \in DOMAIN subjects_data : StartQuiz(subject)
    \/ Submit
    \/ Reset

Spec == Init /\ [][Next]_vars

-----------------------------------------------------------------------------
(* The grading loop on its own: grade(questions, submittedAnswers) *)

GradeQuestions == {qMC, qTF, qTFbad, qTFnull, qSA, qFB, qUN, qES}

Submissions == {PyStr(" TRUE\n"), PyStr("false"), PyStr("Select an answer"), PyStr(""),
                PyStr("PARIS "), PyStr(" 4"), PyStr("yes")}

SeqsUpTo(S, n) == UNION {[1..k -> S] : k \in 0..n}

GradeInit ==
    /\ subjects_data = <<>>
    /\ version = 0
    /\ quiz_questions = <<>>
    /\ quiz_subject = None
    /\ quiz_config = <<>>
    /\ chosen_topic = <<>>
    /\ chosen_grade = <<>>
    /\ event = ""
    /\ warning = FALSE
    /\ user_answers = <<>>
    /\ pass_marks = <<>>
    /\ score = 0
    /\ \E n \in 1..MaxGradeLen :
          \E questions \in [1..n -> GradeQuestions], answers \in [1..n -> Submissions] :
             call = [fn |-> "grade", done |-> FALSE, questions |-> questions,
                     answers |-> answers]

GradeCall ==
    /\ call.fn = "grade"
    /\ ~call.done
    /\ LET result == grade(call.questions, call.answers, Len(call.questions))
       IN  call' = [fn |-> "grade", done |-> TRUE, questions |-> call.questions,
                    answers |-> call.answers, pass_marks |-> result.pass_marks,
                    score |-> result.score]
    /\ UNCHANGED <<subjects_data, session, widgets, event, output>>

SpecGrade == GradeInit /\ [][GradeCall]_vars

-----------------------------------------------------------------------------
(* The filter functions on their own *)

FilterBlocks == {bAlg7, bGeo8, bBare, bAll, bGeneral, bMixed}

TopicFilters == {None, PyStr("All"), PyStr("Algebra"), PyStr("General"), PyStr("Review")}

GradeFilters == {None, PyStr("All"), PyInt(7), PyInt(8)}

FilterInit ==
    /\ subjects_data = <<>>
    /\ version = 0
    /\ quiz_questions = <<>>
    /\ quiz_subject = None
    /\ quiz_config = <<>>
    /\ chosen_topic = <<>>
    /\ chosen_grade = <<>>
    /\ event = ""
    /\ warning = FALSE
    /\ user_answers = <<>>
    /\ pass_marks = <<>>
    /\ score = 0
    /\ \E blocks \in SeqsUpTo(FilterBlocks, MaxBlocks) :
          \E selected_topic \in TopicFilters, selected_grade \in GradeFilters :
             call = [fn |-> "collect", done |-> FALSE, blocks |-> blocks,
                     selected_topic |-> selected_topic,
                     selected_grade |-> selected_grade]

CollectCall ==
    /\ call.fn = "collect"
    /\ ~call.done
    /\ call' = [fn |-> "collect", done |-> TRUE, blocks |-> call.blocks,
                selected_topic |-> call.selected_topic,
                selected_grade |-> call.selected_grade,
                out |-> collect_questions_from_blocks(call.blocks, call.selected_topic,
                                                      call.selected_grade)]
    /\ UNCHANGED <<subjects_data, session, widgets, event, output>>

SpecFilter == FilterInit /\ [][CollectCall]_vars

-----------------------------------------------------------------------------
(* Vocabulary of the properties *)

\* the text of a value before normalization: null is the empty string
TextOf(value) == IF value = None THEN "" ELSE str(value)

\* s without its leading and trailing whitespace
Trimmed(s) ==
    LET solid == {i \in 1..Len(s) : SubSeq(s, i, i) \notin {" ", "\t", "\n", "\r", "\f"}}
    IN  IF solid = {} THEN ""
        ELSE SubSeq(s, CHOOSE i \in solid : \A j \in solid : i <= j,
                       CHOOSE i \in solid : \A j \in solid : j <= i)

\* the lower-case form of one character
LowerCase(c) ==
    LET k == {i \in 1..26 : SubSeq("ABCDEFGHIJKLMNOPQRSTUVWXYZ", i, i) = c}
    IN  IF k = {} THEN c
        ELSE SubSeq("abcdefghijklmnopqrstuvwxyz", CHOOSE i \in k : TRUE, CHOOSE i \in k : TRUE)

\* the normalized form of value is the string literal
NormalizesTo(value, literal) ==
    LET s == Trimmed(TextOf(value))
    IN  /\ Len(s) = Len(literal)
        /\ \A i \in 1..Len(s) : LowerCase(SubSeq(s, i, i)) = SubSeq(literal, i, i)

\* two values have the same normalized form
SameNormalized(a, b) ==
    LET s == Trimmed(TextOf(a))
        t == Trimmed(TextOf(b))
    IN  /\ Len(s) = Len(t)
        /\ \A i \in 1..Len(s) : LowerCase(SubSeq(s, i, i)) = LowerCase(SubSeq(t, i, i))

\* the session's pool: the questions extracted for the stored subject and filter
SessionPool ==
    pool_of(quiz_subject.v, quiz_config.topic, quiz_config.grade)

\* the pool of the tab whose Start Quiz button was pressed last
StartedTabs == {s \in DOMAIN subjects_data : event = "start_" \o s}

-----------------------------------------------------------------------------
(* C1: for every non-empty pool, whatever the types of its items, Start Quiz
   stores a question list of length exactly min(10, |pool|). *)
C1_LengthIsMinOfTenAndPool ==
    quiz_subject # None =>
        Len(quiz_questions) = (IF Len(SessionPool) < 10 THEN Len(SessionPool) ELSE 10)

(* C2: a Start Quiz that finds an empty pool leaves quiz_questions,
   quiz_subject, quiz_config and version exactly as they were. *)
C2_EmptyPoolKeepsSession ==
    [][\A s \in DOMAIN subjects_data :
          (event' = "start_" \o s /\ pool_of(s, chosen_topic[s], chosen_grade[s]) = <<>>)
             => /\ quiz_questions' = quiz_questions
                /\ quiz_subject' = quiz_subject
                /\ quiz_config' = quiz_config
                /\ version' = version]_vars

\* a start found an empty pool while a quiz was active, and the quiz is still there
C2_Witness ==
    /\ \E s \in StartedTabs : pool_of(s, chosen_topic[s], chosen_grade[s]) = <<>>
    /\ warning
    /\ quiz_questions # <<>>
    /\ quiz_subject # None
    /\ version >= 1

\* rank of a type in the order multiple_choice, true_false, short_answer,
\* fill_blank, unknown
TypeRank(t) ==
    CASE t = "multiple_choice" -> 1
      [] t = "true_false" -> 2
      [] t = "short_answer" -> 3
      [] t = "fill_blank" -> 4
      [] t = "unknown" -> 5

(* C3: in every reachable state quiz_questions is grouped by type in the
   order multiple_choice, true_false, short_answer, fill_blank, unknown:
   for positions i < j the rank of the type at i is at most the rank at j. *)
C3_GroupedByTypeInFixedOrder ==
    /\ \A i \in 1..Len(quiz_questions) :
          quiz_questions[i].type \in
             {"multiple_choice", "true_false", "short_answer", "fill_blank", "unknown"}
    /\ \A i, j \in 1..Len(quiz_questions) :
          i < j => TypeRank(quiz_questions[i].type) <= TypeRank(quiz_questions[j].type)

\* a stored list of several types whose order differs from the order of the pool
C3_Witness ==
    /\ quiz_subject # None
    /\ \E i, j \in 1..Len(quiz_questions) :
          /\ i < j
          /\ quiz_questions[i].type # quiz_questions[j].type
          /\ \A m, n \in 1..Len(SessionPool) :
                (SessionPool[m] = quiz_questions[i] /\ SessionPool[n] = quiz_questions[j])
                   => n < m
    /\ \E i, j \in 1..Len(quiz_questions) :
          /\ i < j
          /\ quiz_questions[i].type = quiz_questions[j].type
          /\ quiz_questions[i] # quiz_questions[j]

(* C4: version is strictly increasing and never reused: every successful
   start and every reset adds one to it, a start on an empty pool and a
   submit leave it alone, and the stored question list never changes
   without a larger version. *)
C4_VersionStrictlyIncreasing ==
    [][/\ version' >= version
       /\ \A s \in DOMAIN subjects_data :
             event' = "start_" \o s =>
                IF pool_of(s, chosen_topic[s], chosen_grade[s]) = <<>>
                THEN version' = version
                ELSE version' = version + 1
       /\ event' = "New Set of Questions" => version' = version + 1
       /\ event' = "Submit Answers" => version' = version
       /\ quiz_questions' # quiz_questions => version' > version]_vars

\* a second question list was stored by a start
C4_Witness ==
    /\ version >= 2
    /\ StartedTabs # {}
    /\ ~warning
    /\ quiz_questions # <<>>

(* C5: a reset adds one to version, makes quiz_subject null and
   quiz_questions empty, and leaves subjects_data unchanged. *)
C5_ResetClearsAndIncrements ==
    [][event' = "New Set of Questions" =>
          /\ version' = version + 1
          /\ quiz_subject' = None
          /\ quiz_questions' = <<>>
          /\ subjects_data' = subjects_data]_vars

\* a reset has run on an active quiz
C5_Witness ==
    /\ event = "New Set of Questions"
    /\ version >= 2
    /\ quiz_subject = None
    /\ quiz_questions = <<>>
    /\ DOMAIN subjects_data # {}

(* C6: a true_false question is graded correct iff the normalized
   submission is exactly "true" or "false" and equals the normalized stored
   answer; a submission that is neither literal is incorrect for every
   stored answer. *)
C6_TrueFalseNeedsLiteral ==
    (call.fn = "grade" /\ call.done) =>
        \A i \in 1..Len(call.questions) :
            call.questions[i].type = "true_false" =>
                (call.pass_marks[i] <=>
                    /\ \/ NormalizesTo(call.answers[i], "true")
                       \/ NormalizesTo(call.answers[i], "false")
                    /\ SameNormalized(call.answers[i], call.questions[i].answer))

\* a submission equal to the stored answer after normalization, but not a
\* literal, was graded incorrect
C6_Witness ==
    /\ call.fn = "grade"
    /\ call.done
    /\ \E i \in 1..Len(call.questions) :
          /\ call.questions[i].type = "true_false"
          /\ SameNormalized(call.answers[i], call.questions[i].answer)
          /\ call.questions[i].answer # None
          /\ ~call.pass_marks[i]
    /\ \E i \in 1..Len(call.questions) :
          /\ call.questions[i].type = "true_false"
          /\ call.pass_marks[i]

(* C7: a question of any type other than true_false is graded correct iff
   the submission and the stored answer have the same normalized form (null
   is the empty string, otherwise trimmed and lower-cased), and the final
   score is the number of questions graded correct. *)
C7_NormalizedEquality ==
    (call.fn = "grade" /\ call.done) =>
        /\ \A i \in 1..Len(call.questions) :
              call.questions[i].type # "true_false" =>
                 (call.pass_marks[i] <=>
                     SameNormalized(call.answers[i], call.questions[i].answer))
        /\ call.score = Cardinality({i \in 1..Len(call.questions) : call.pass_marks[i]})

\* the stored answer, submitted with other letter case and whitespace, was
\* graded correct and counted
C7_Witness ==
    /\ call.fn = "grade"
    /\ call.done
    /\ \E i \in 1..Len(call.questions) :
          /\ call.questions[i].type \in {"short_answer", "multiple_choice"}
          /\ TextOf(call.answers[i]) # TextOf(call.questions[i].answer)
          /\ call.pass_marks[i]
    /\ \E i \in 1..Len(call.questions) : ~call.pass_marks[i]
    /\ call.score = 1

\* the items of a block; a block without questions has none
ItemsOf(b) == IF "questions" \in DOMAIN b THEN b.questions ELSE <<>>

\* the positions <<block, item>> of the valid items of the blocks that the
\* filter selects; wildcards are the filter values that select every block
SelectedItems(blocks, topic_filter, grade_filter, wildcards) ==
    {p \in UNION {{<<i, k>> : k \in 1..Len(ItemsOf(blocks[i]))} : i \in 1..Len(blocks)} :
        /\ {"type", "question", "answer"} \subseteq DOMAIN blocks[p[1]].questions[p[2]]
        /\ \/ topic_filter \in wildcards
           \/ ("topic" \in DOMAIN blocks[p[1]] /\ blocks[p[1]].topic = topic_filter)
        /\ \/ grade_filter \in wildcards
           \/ ("grade" \in DOMAIN blocks[p[1]] /\ blocks[p[1]].grade = grade_filter)}

\* out lists the items at the positions P of blocks in source order
ListsInSourceOrder(out, blocks, P) ==
    /\ Len(out) = Cardinality(P)
    /\ \A p \in P :
          out[Cardinality({r \in P : r[1] < p[1] \/ (r[1] = p[1] /\ r[2] <= p[2])})]
             = blocks[p[1]].questions[p[2]]

(* C8, as stated: extractQuestions returns in source order, without
   deduplication, the valid items of the matching blocks, where a null
   filter matches every block and any non-null filter value matches a block
   only when the block's topic (resp. grade) equals it. *)
C8_NullIsTheOnlyWildcard ==
    (call.fn = "collect" /\ call.done) =>
        ListsInSourceOrder(call.out, call.blocks,
            SelectedItems(call.blocks, call.selected_topic, call.selected_grade, {None}))

(* C8, amended: the same, where a filter that is null or the literal "All"
   matches every block and any other filter value matches a block only when
   the block has a topic (resp. grade) equal to it. *)
C8_NullAndAllAreWildcards ==
    (call.fn = "collect" /\ call.done) =>
        ListsInSourceOrder(call.out, call.blocks,
            SelectedItems(call.blocks, call.selected_topic, call.selected_grade,
                          {None, PyStr("All")}))

\* the filter "All" returned the items of a block whose topic is not "All",
\* after dropping an invalid item
C8_Witness ==
    /\ call.fn = "collect"
    /\ call.done
    /\ call.selected_topic = PyStr("All")
    /\ call.selected_grade = PyInt(7)
    /\ Len(call.blocks) = 2
    /\ call.out = <<qTF, qSA, qTF, qSA>>

(* C9: every topic returned by listTopicsAndGrades is a usable filter:
   extractQuestions(blocks, t, null) contains the valid questions of every
   block whose topic, "General" when the field is absent, equals t. *)
C9_ListedTopicSelectsItsBlocks ==
    (/\ call.fn = "collect"
     /\ call.done
     /\ call.selected_grade = None
     /\ call.selected_topic \in get_topics_and_grades(call.blocks).topics) =>
        \A i \in 1..Len(call.blocks) :
            (IF "topic" \in DOMAIN call.blocks[i] THEN call.blocks[i].topic
             ELSE PyStr("General")) = call.selected_topic =>
                \A k \in 1..Len(ItemsOf(call.blocks[i])) :
                    {"type", "question", "answer"} \subseteq DOMAIN call.blocks[i].questions[k]
                       => \E n \in 1..Len(call.out) : call.out[n] = call.blocks[i].questions[k]

(* C10: in every reachable state the session is fully empty or fully
   active: quiz_subject is null iff quiz_questions is empty. *)
C10_SubjectNullIffNoQuestions ==
    (quiz_subject = None) <=> (quiz_questions = <<>>)

====
